---------------------------- MODULE Spec2Model ----------------------------
(***************************************************************************)
(* Model of the FAQ chatbot of src/chat_faq.py (class                      *)
(* LuxuryBoutiqueChatbot and the Streamlit script around it) together with *)
(* the writer of its input file, src/generate_faqs.py.                     *)
(*                                                                         *)
(* Text.  A Python str is a sequence of one-character strings, so that     *)
(* str.lower() and the substring test `a in b` are computed character by   *)
(* character.  Texts that the program only copies into its output          *)
(* (questions, answers, service names) are one-element sequences holding   *)
(* the whole text; an emoji is one character named by its code point.      *)
(*                                                                         *)
(* Responses.  A response string is the sequence of its lines (the string  *)
(* split at "\n"); each line is a record [t |-> the fixed text of the      *)
(* line's format string, s |-> the text interpolated into it].             *)
(*                                                                         *)
(* Libraries.  spaCy and scikit-learn are not code of the repository.  The *)
(* fitted vectorizer is modelled by what the program uses of it: whether   *)
(* fit_transform raises, and the row of cosine similarities it returns for *)
(* a query, in hundredths (Rows).                                          *)
(***************************************************************************)
EXTENDS Integers, Sequences, FiniteSets, TLC

VARIABLES
    faqs_json,      \* the file "faqs.json" on disk
    session_state,  \* st.session_state: a function whose domain is {} or {"messages"}
    bot,            \* the script's global `bot` during a script run
    pc,             \* position of the script run in chat_faq.py
    event,          \* the widget event that triggered the current script run
    rendered,       \* whether the last run drew st.chat_input and the sidebar button
    response,       \* the script's local `response`
    similarities,   \* the row returned by cosine_similarity in the current run
    route,          \* which return statement of generate_response was taken
    st_errors,      \* the st.error boxes drawn by the current run
    loads,          \* number of times load_faqs has opened the file
    startup_faqs    \* the corpus built by the first successful construction

vars == <<faqs_json, session_state, bot, pc, event, rendered, response,
          similarities, route, st_errors, loads, startup_faqs>>

---------------------------------------------------------------------------
(* Bounds of the model *)

\* a user event (prompt, Clear Conversation, rerun) or a rewrite of the file
\* is explored while the file has been loaded fewer than MaxEvents times
MaxEvents == 4

\* number of entries generate_faqs.py writes (the script writes 500)
MaxGenerated == 2

---------------------------------------------------------------------------
(* Program constants *)

\* similarities[0, best_idx] > 0.4, in hundredths
Threshold == 40

\* TfidfVectorizer(min_df=2)
min_df == 2

\* collection_faqs[:3]
MaxQuestions == 3

\* faq['services'][:2]
MaxServices == 2

KW_price == <<"p", "r", "i", "c", "e">>
KW_cost == <<"c", "o", "s", "t">>
KW_how_much == <<"h", "o", "w", " ", "m", "u", "c", "h">>

\* ['price', 'cost', 'how much']
PricingKeywords == <<KW_price, KW_cost, KW_how_much>>

Casual_Collection == <<"U+1F3A8", " ", "C", "a", "s", "u", "a", "l", " ", "C", "o", "l", "l", "e", "c", "t", "i", "o", "n">>
Premium_Designer == <<"U+1F31F", " ", "P", "r", "e", "m", "i", "u", "m", " ", "D", "e", "s", "i", "g", "n", "e", "r">>
Luxury_Artisan == <<"U+1F381", " ", "L", "u", "x", "u", "r", "y", " ", "A", "r", "t", "i", "s", "a", "n">>
Price_45_65 == <<"$", "4", "5", "-", "$", "6", "5">>
Price_85_120 == <<"$", "8", "5", "-", "$", "1", "2", "0">>
Price_150 == <<"$", "1", "5", "0", "+">>

\* the `collections` list of generate_faqs.py
collections ==
    << [name |-> Casual_Collection, price_range |-> Price_45_65,  style |-> <<"linen">>,
        word |-> <<"Casual">>],
       [name |-> Premium_Designer,  price_range |-> Price_85_120, style |-> <<"silk-blend">>,
        word |-> <<"Premium">>],
       [name |-> Luxury_Artisan,    price_range |-> Price_150,    style |-> <<"custom embroidery">>,
        word |-> <<"Luxury">>] >>

\* the `services` list of generate_faqs.py: (name, description, surcharge)
services ==
    << <<"VIP Fitting", "Champagne service with our master tailor", "+$50">>,
       <<"Eco-Clean", "Sustainable dry cleaning package", "+$20">>,
       <<"Monogramming", "Initial embroidery on cuff or collar", "+$35">> >>

---------------------------------------------------------------------------
(* Python str operations *)

UpperCase == <<"A","B","C","D","E","F","G","H","I","J","K","L","M",
               "N","O","P","Q","R","S","T","U","V","W","X","Y","Z">>
LowerCase == <<"a","b","c","d","e","f","g","h","i","j","k","l","m",
               "n","o","p","q","r","s","t","u","v","w","x","y","z">>

\* one character of str.lower()
LowerChar(c) ==
    IF \E i \in 1..Len(UpperCase) : UpperCase[i] = c
    THEN LowerCase[CHOOSE i \in 1..Len(UpperCase) : UpperCase[i] = c]
    ELSE c

\* str.lower()
RECURSIVE Lower(_)
Lower(s) == IF s = <<>> THEN <<>> ELSE <<LowerChar(Head(s))>> \o Lower(Tail(s))

\* the substring test `sub in s`
In(sub, s) ==
    \E i \in 0..(Len(s) - Len(sub)) : SubSeq(s, i + 1, i + Len(sub)) = sub

\* dict.get(key, default)
Get(d, key, default) == IF key \in DOMAIN d THEN d[key] ELSE default

\* seq[:n]
Take(seq, n) == SubSeq(seq, 1, IF Len(seq) < n THEN Len(seq) ELSE n)

\* a normal return and a raised exception of a Python call
Return(v) == [ok |-> TRUE, val |-> v]
Raise(e)  == [ok |-> FALSE, val |-> <<[t |-> "exception", s |-> <<e>>]>>]

Line(fmt, text) == [t |-> fmt, s |-> text]

---------------------------------------------------------------------------
(* class LuxuryBoutiqueChatbot *)

\* load_faqs: the list under "faqs", or [] after st.error when open() or
\* json.load() raises
load_faqs(file) ==
    IF file.status = "ok"
    THEN [faqs |-> file.faqs, errors |-> <<>>]
    ELSE [faqs |-> <<>>, errors |-> <<Line("Error loading FAQ file: ", <<file.status>>)>>]

\* the set built by get_unique_collections
CollectionSet(faqs) == { Get(faqs[i], "collection", <<>>) : i \in 1..Len(faqs) }

\* the lists list(set) can return: the iteration order of a set of str
\* depends on the process's string hashing
ListsOf(S) ==
    { l \in [1..Cardinality(S) -> S] : \A x \in S : \E i \in DOMAIN l : l[i] = x }

\* get_unique_collections
get_unique_collections(faqs) == ListsOf(CollectionSet(faqs))

\* the texts joined into one search context by build_search_context; the
\* tokenizer is spaCy's, so each non-empty text counts as one term
SearchTerms(faq) ==
    ( {faq.question, Get(faq, "answer", <<>>), Get(faq, "collection", <<>>),
       Get(faq, "price_range", <<>>)}
      \cup { Get(faq, "tags", <<>>)[i] : i \in DOMAIN Get(faq, "tags", <<>>) }
      \cup { <<"SERVICE_", Get(faq, "services", <<>>)[i][1]>> :
                i \in DOMAIN Get(faq, "services", <<>>) } )
    \ {<<>>}

\* build_search_context raises KeyError when a record has no 'question'
BuildRaises(faqs) == \E i \in 1..Len(faqs) : "question" \notin DOMAIN faqs[i]

\* fit_transform with the min_df pruning skipped for an empty corpus
FitRaises_ExceptEmpty(faqs) ==
    /\ faqs # <<>>
    /\ ~ \E i \in 1..Len(faqs) : \E term \in SearchTerms(faqs[i]) :
          Cardinality({ j \in 1..Len(faqs) : term \in SearchTerms(faqs[j]) }) >= min_df

\* fit_transform raises ValueError when no term is left: no documents, or
\* no term that occurs in at least min_df documents
FitRaises(faqs) ==
    ~ \E i \in 1..Len(faqs) : \E term \in SearchTerms(faqs[i]) :
        Cardinality({ j \in 1..Len(faqs) : term \in SearchTerms(faqs[j]) }) >= min_df

\* __init__: the constructed object, or the exception it raises
Construct(file, order) ==
    LET loaded == load_faqs(file) IN
    IF BuildRaises(loaded.faqs)
    THEN [ok |-> FALSE, errors |-> loaded.errors, exc |-> Line("Failed to initialize chatbot: ", <<"'question'">>),
          faqs |-> loaded.faqs, collections |-> order]
    ELSE IF FitRaises(loaded.faqs)
    THEN [ok |-> FALSE, errors |-> loaded.errors, exc |-> Line("Failed to initialize chatbot: ", <<"empty vocabulary">>),
          faqs |-> loaded.faqs, collections |-> order]
    ELSE [ok |-> TRUE, errors |-> loaded.errors, exc |-> Line("", <<>>),
          faqs |-> loaded.faqs, collections |-> order]

\* any(word in user_query.lower() for word in ['price', 'cost', 'how much'])
HasPricingKeyword(user_query) ==
    \E k \in 1..Len(PricingKeywords) : In(PricingKeywords[k], Lower(user_query))

\* get_fallback_pricing
get_fallback_pricing ==
    << Line("Our collections are priced at:", <<>>),
       Line("- Casual: $45-$65", <<>>),
       Line("- Premium: $85-$120", <<>>),
       Line("- Luxury: $150+", <<>>) >>

\* get_fallback_response
get_fallback_response ==
    << Line("Here are some suggestions:", <<>>),
       Line("Ask about our Casual, Premium, or Luxury collections", <<>>),
       Line("- Need price ranges? Try: 'What's the cost of premium shirts?'", <<>>),
       Line("- Ask about services like alterations or monogramming", <<>>) >>

\* one element of price_info
PriceBlock(faq) ==
    << Line("**{collection}**", Get(faq, "collection", <<"Collection">>)),
       Line("Price Range: ", faq.price_range),
       Line("Inclusions: ", faq.answer),
       Line("", <<>>) >>

\* the test of lines 93-94 of handle_pricing_query
PriceMatches(faq, query) ==
    /\ "price_range" \in DOMAIN faq
    /\ In(Lower(faq.price_range), Lower(query))

\* the loop of handle_pricing_query from record i on, price_info so far in acc
RECURSIVE PricingLoop(_, _, _, _)
PricingLoop(faqs, query, i, acc) ==
    IF i > Len(faqs)
    THEN Return(IF acc # <<>> THEN acc ELSE get_fallback_pricing)
    ELSE IF PriceMatches(faqs[i], query)
         THEN IF "answer" \in DOMAIN faqs[i]
              THEN PricingLoop(faqs, query, i + 1, acc \o PriceBlock(faqs[i]))
              ELSE Raise("'answer'")
         ELSE PricingLoop(faqs, query, i + 1, acc)

\* handle_pricing_query
handle_pricing_query(faqs, query) == PricingLoop(faqs, query, 1, <<>>)

\* f.get('collection') == collection
InCollection(faq, collection) ==
    "collection" \in DOMAIN faq /\ faq.collection = collection

\* handle_collection_query without the [:3] slice
handle_collection_query_NoCap(faqs, collection) ==
    LET collection_faqs == SelectSeq(faqs, LAMBDA f : InCollection(f, collection))
    IN  IF collection_faqs = <<>>
        THEN Return(<<Line("Sorry, we couldn't find details about ", collection)>>)
        ELSE Return(<< Line("U+2728 **{collection}** U+2728", collection),
                       Line("Featured in this collection:", <<>>) >>
                    \o [i \in 1..Len(collection_faqs) |-> Line("- ", collection_faqs[i].question)])

\* handle_collection_query
handle_collection_query(faqs, collection) ==
    LET collection_faqs == SelectSeq(faqs, LAMBDA f : InCollection(f, collection))
        shown == Take(collection_faqs, MaxQuestions)
    IN  IF collection_faqs = <<>>
        THEN Return(<<Line("Sorry, we couldn't find details about ", collection)>>)
        ELSE Return(<< Line("U+2728 **{collection}** U+2728", collection),
                       Line("Featured in this collection:", <<>>) >>
                    \o [i \in 1..Len(shown) |-> Line("- ", shown[i].question)])

\* format_response
format_response(faq) ==
    LET price == IF "price_range" \in DOMAIN faq
                 THEN <<Line("U+1F4B0 **Price Range:** ", faq.price_range)>> ELSE <<>>
        shown == Take(Get(faq, "services", <<>>), MaxServices)
    IN  IF "answer" \notin DOMAIN faq THEN Raise("'answer'")
        ELSE IF "services" \notin DOMAIN faq THEN Return(price \o <<Line("", faq.answer)>>)
        ELSE IF \E i \in 1..Len(shown) : Len(shown[i]) < 3
        THEN Raise("list index out of range")
        ELSE Return(price \o <<Line("", faq.answer), Line("", <<>>),
                               Line("**Services Available:**", <<>>)>>
                    \o [i \in 1..Len(shown) |-> Line("- {name} ({surcharge})",
                                                      <<shown[i][1], shown[i][3]>>)])

\* numpy argmax: the first index of the largest value
ArgMax(row) ==
    CHOOSE i \in 1..Len(row) :
        /\ \A j \in 1..Len(row) : row[j] <= row[i]
        /\ \A j \in 1..(i - 1) : row[j] < row[i]

\* the collections of self.collections, in list order, whose lowercased name
\* is in the lowercased query
MatchingCollections(colls, user_query) ==
    SelectSeq(colls, LAMBDA c : In(Lower(c), Lower(user_query)))

\* generate_response with the collection test moved before the pricing test
generate_response_CollectionFirst(b, user_query, row) ==
    IF MatchingCollections(b.collections, user_query) # <<>>
    THEN [route |-> "collection",
          out |-> handle_collection_query(b.faqs,
                      MatchingCollections(b.collections, user_query)[1])]
    ELSE IF HasPricingKeyword(user_query)
    THEN [route |-> "pricing", out |-> handle_pricing_query(b.faqs, user_query)]
    ELSE IF row[ArgMax(row)] > Threshold
    THEN [route |-> "faq", out |-> format_response(b.faqs[ArgMax(row)])]
    ELSE [route |-> "fallback", out |-> Return(get_fallback_response)]

\* generate_response with >= in place of > at the threshold
generate_response_AtLeast(b, user_query, row) ==
    IF HasPricingKeyword(user_query)
    THEN [route |-> "pricing", out |-> handle_pricing_query(b.faqs, user_query)]
    ELSE IF MatchingCollections(b.collections, user_query) # <<>>
    THEN [route |-> "collection",
          out |-> handle_collection_query(b.faqs,
                      MatchingCollections(b.collections, user_query)[1])]
    ELSE IF row[ArgMax(row)] >= Threshold
    THEN [route |-> "faq", out |-> format_response(b.faqs[ArgMax(row)])]
    ELSE [route |-> "fallback", out |-> Return(get_fallback_response)]

\* generate_response; row is what cosine_similarity returns for the query
generate_response(b, user_query, row) ==
    IF HasPricingKeyword(user_query)
    THEN [route |-> "pricing", out |-> handle_pricing_query(b.faqs, user_query)]
    ELSE IF MatchingCollections(b.collections, user_query) # <<>>
    THEN [route |-> "collection",
          out |-> handle_collection_query(b.faqs,
                      MatchingCollections(b.collections, user_query)[1])]
    ELSE IF row[ArgMax(row)] > Threshold
    THEN [route |-> "faq", out |-> format_response(b.faqs[ArgMax(row)])]
    ELSE [route |-> "fallback", out |-> Return(get_fallback_response)]

---------------------------------------------------------------------------
(* generate_faqs.py *)

\* the question templates of lines 115-121, by position
Question(template, c) ==
    CASE template = 1 -> <<"How should I care for my ">> \o c.style \o <<" ">> \o c.name \o <<" shirt?">>
      [] template = 2 -> <<"What makes your ">> \o c.name \o <<" collection special?">>
      [] template = 3 -> <<"Can I get ">> \o c.style \o <<" shirts in ", "Slim Fit", "?">>
      [] template = 4 -> <<"What's included in the price of ">> \o c.name \o <<" shirts?">>
      [] template = 5 -> <<"Do you offer international shipping for ">> \o c.style \o <<" designs?">>

\* generate_boutique_answer for faq_type "pricing"
generate_boutique_answer(c) ==
    <<"Our ">> \o c.style \o <<" shirts feature: ">> \o c.name \o <<" (">> \o c.price_range \o <<")">>

\* faq_entry number i for the drawn collection and question template
faq_entry(i, c, template) ==
    [ id          |-> i,
      category    |-> c.name,
      tags        |-> <<c.style, <<"Slim Fit">>, c.word>>,
      question    |-> Question(template, c),
      answer      |-> generate_boutique_answer(c),
      price_range |-> c.price_range,
      collection  |-> c.name,
      services    |-> <<services[1], services[2]>> ]

\* the random draws explored: the run's seed fixes the collection drawn for
\* each entry (the question template, style, size, faq_type and the sampled
\* services are held at one value each)
Seeds == 1..Len(collections)
DrawnCollection(seed, i) == collections[((seed + i) % Len(collections)) + 1]

\* the loop of lines 109-135: faq_data["faqs"] after n entries
RECURSIVE faq_data(_, _)
faq_data(seed, n) ==
    IF n = 0 THEN <<>>
    ELSE Append(faq_data(seed, n - 1), faq_entry(n, DrawnCollection(seed, n), 4))

\* the files generate_faqs.py can write, MaxGenerated entries long
GeneratedFiles == { [status |-> "ok", faqs |-> faq_data(seed, MaxGenerated)] : seed \in Seeds }

---------------------------------------------------------------------------
(* Inputs *)

Casual == <<"C", "a", "s", "u", "a", "l">>
Luxury == <<"L", "u", "x", "u", "r", "y">>

\* a hand-edited faqs.json of five records, four of them in one collection
BoutiqueFile ==
    [status |-> "ok",
     faqs |-> << [question |-> <<"Q1">>, answer |-> <<"A1">>, collection |-> Casual,
                  price_range |-> Price_45_65, services |-> <<services[1], services[3], services[2]>>],
                 [question |-> <<"Q2">>, answer |-> <<"A2">>, collection |-> Luxury,
                  price_range |-> Price_150],
                 [question |-> <<"Q3">>, answer |-> <<"A1">>, collection |-> Casual],
                 [question |-> <<"Q4">>, answer |-> <<"A2">>, collection |-> Casual,
                  price_range |-> Price_45_65],
                 [question |-> <<"Q5">>, answer |-> <<"A1">>, collection |-> Casual] >>]

\* a faqs.json whose records leave optional fields out: no collection, an
\* empty price_range, no answer, a service without surcharge
SparseFile ==
    [status |-> "ok",
     faqs |-> << [question |-> <<"Q1">>, answer |-> <<"A1">>, price_range |-> <<>>],
                 [question |-> <<"Q2">>, collection |-> Luxury, price_range |-> Price_150],
                 [question |-> <<"Q3">>, answer |-> <<"A1">>, collection |-> Casual,
                  services |-> << <<"Eco-Clean", "Sustainable dry cleaning package">> >>] >>]

\* a faqs.json with a single record
SingleFile ==
    [status |-> "ok",
     faqs |-> << [question |-> <<"Q1">>, answer |-> <<"A1">>, collection |-> Casual] >>]

\* {"faqs": []}, or a JSON object without "faqs"
EmptyFile == [status |-> "ok", faqs |-> <<>>]

\* no file, and a file json.load rejects
MissingFile   == [status |-> "[Errno 2] No such file or directory: 'faqs.json'", faqs |-> <<>>]
MalformedFile == [status |-> "Expecting value: line 1 column 1 (char 0)", faqs |-> <<>>]

\* the contents of faqs.json when the app is started
InitFiles == {BoutiqueFile, SparseFile, SingleFile, EmptyFile, MissingFile, MalformedFile}

Q_HowMuch == <<"H", "o", "w", " ", "m", "u", "c", "h", " ", "i", "s", " ", "$", "4", "5", "-", "$", "6", "5", "?">>
Q_CostLuxury == <<"L", "u", "x", "u", "r", "y", " ", "c", "o", "s", "t", " ", "$", "1", "5", "0", "+">>
Q_CasualOrLuxury == <<"c", "a", "s", "u", "a", "l", " ", "o", "r", " ", "L", "U", "X", "U", "R", "Y", "?">>
Q_GenCollection == <<"U+1F3A8", " ", "c", "a", "s", "u", "a", "l", " ", "c", "o", "l", "l", "e", "c", "t", "i", "o", "n">>

\* the prompts typed into st.chat_input
Queries == {Q_HowMuch, Q_CostLuxury, Q_CasualOrLuxury, Q_GenCollection}

\* the rows cosine_similarity can return for a corpus of n records, in
\* hundredths; explored are the row of zeros (no term of the query is in the
\* vocabulary) and every row of scores at the threshold or just above it
Rows(n) == {[i \in 1..n |-> 0]} \cup [1..n -> {Threshold, Threshold + 1}]

---------------------------------------------------------------------------
(* The Streamlit script of chat_faq.py, lines 167-222 *)

NoBot == [built |-> FALSE, faqs |-> <<>>, collections |-> <<>>]
NoEvent == [kind |-> "none", prompt |-> <<>>]
NoSessionState == [k \in {} |-> <<>>]

\* st.session_state.messages, [] while the key is not set
Messages == IF "messages" \in DOMAIN session_state THEN session_state["messages"] ELSE <<>>

Message(role, content) == [role |-> role, content |-> content]

\* lines 190-193 with an except clause that answers with the fallback text
TryGenerate_Swallow(b, prompt, row) ==
    LET r == generate_response(b, prompt, row) IN
    IF r.out.ok
    THEN [route |-> r.route, response |-> r.out.val]
    ELSE [route |-> r.route, response |-> get_fallback_response]

\* lines 190-193: the response, or the error text when generate_response raises
TryGenerate(b, prompt, row) ==
    LET r == generate_response(b, prompt, row) IN
    IF r.out.ok
    THEN [route |-> r.route, response |-> r.out.val]
    ELSE [route |-> r.route,
          response |-> <<Line("Error generating response: ", r.out.val[1].s)>>]

\* whether generate_response reaches cosine_similarity (line 82)
Scored(b, prompt) ==
    ~HasPricingKeyword(prompt) /\ MatchingCollections(b.collections, prompt) = <<>>

Init ==
    /\ faqs_json \in InitFiles
    /\ session_state = NoSessionState
    /\ bot = NoBot
    /\ pc = "init"
    /\ event = NoEvent
    /\ rendered = FALSE
    /\ response = <<>>
    /\ similarities = <<>>
    /\ route = "none"
    /\ st_errors = <<>>
    /\ loads = 0
    /\ startup_faqs = [built |-> FALSE, faqs |-> <<>>]

\* a new script run starts: nothing is drawn yet, the script's names are unbound
BeginRun(ev) ==
    /\ pc' = "init"
    /\ event' = ev
    /\ bot' = NoBot
    /\ rendered' = FALSE
    /\ response' = <<>>
    /\ similarities' = <<>>
    /\ route' = "none"
    /\ st_errors' = <<>>

\* the user submits a prompt in st.chat_input (line 184)
Submit ==
    /\ pc = "idle" /\ rendered /\ loads < MaxEvents
    /\ \E prompt \in Queries : BeginRun([kind |-> "prompt", prompt |-> prompt])
    /\ UNCHANGED <<faqs_json, session_state, loads, startup_faqs>>

\* the user clicks "Clear Conversation" (line 220)
ClickClear ==
    /\ pc = "idle" /\ rendered /\ loads < MaxEvents
    /\ BeginRun([kind |-> "clear", prompt |-> <<>>])
    /\ UNCHANGED <<faqs_json, session_state, loads, startup_faqs>>

\* the user reruns the script without a widget event
Rerun ==
    /\ pc = "idle" /\ loads < MaxEvents
    /\ BeginRun(NoEvent)
    /\ UNCHANGED <<faqs_json, session_state, loads, startup_faqs>>

\* generate_faqs.py is run and overwrites faqs.json
GenerateFaqs ==
    /\ pc = "idle" /\ loads < MaxEvents
    /\ faqs_json' \in GeneratedFiles
    /\ UNCHANGED <<session_state, bot, pc, event, rendered, response, similarities,
                   route, st_errors, loads, startup_faqs>>

\* lines 167-172: construct the chatbot, or st.error and st.stop
InitializeChatbot ==
    /\ pc = "init"
    /\ loads' = loads + 1
    /\ \E order \in get_unique_collections(load_faqs(faqs_json).faqs) :
         LET c == Construct(faqs_json, order) IN
         IF c.ok
         THEN /\ bot' = [built |-> TRUE, faqs |-> c.faqs, collections |-> c.collections]
              /\ st_errors' = c.errors
              /\ pc' = "history"
              /\ startup_faqs' = IF startup_faqs.built THEN startup_faqs
                                 ELSE [built |-> TRUE, faqs |-> c.faqs]
         ELSE /\ bot' = NoBot
              /\ st_errors' = c.errors \o <<c.exc>>
              /\ pc' = "idle"
              /\ startup_faqs' = startup_faqs
    /\ UNCHANGED <<faqs_json, session_state, event, rendered, response, similarities, route>>

\* lines 174-181: create the history on the session's first run, draw it
ChatHistory ==
    /\ pc = "history"
    /\ session_state' = IF "messages" \in DOMAIN session_state
                        THEN session_state ELSE [messages |-> <<>>]
    /\ pc' = "input"
    /\ UNCHANGED <<faqs_json, bot, event, rendered, response, similarities, route,
                   st_errors, loads, startup_faqs>>

\* lines 184-187: with a prompt, append the user's message
UserInput ==
    /\ pc = "input"
    /\ IF event.kind = "prompt"
       THEN /\ session_state' = [session_state EXCEPT !["messages"] =
                    Append(@, Message("user", <<Line("", event.prompt)>>))]
            /\ pc' = "generate"
       ELSE /\ pc' = "sidebar"
            /\ UNCHANGED session_state
    /\ UNCHANGED <<faqs_json, bot, event, rendered, response, similarities, route,
                   st_errors, loads, startup_faqs>>

\* lines 189-193: generate the response
GenerateResponse ==
    /\ pc = "generate"
    /\ \E row \in IF Scored(bot, event.prompt) THEN Rows(Len(bot.faqs)) ELSE {<<>>} :
         LET r == TryGenerate(bot, event.prompt, row) IN
         /\ response' = r.response
         /\ route' = r.route
         /\ similarities' = row
         /\ pc' = "respond"
    /\ UNCHANGED <<faqs_json, session_state, bot, event, rendered, st_errors, loads,
                   startup_faqs>>

\* lines 195-199 with the history replaced by the new message
AddBotResponse_Overwrite ==
    /\ pc = "respond"
    /\ session_state' = [session_state EXCEPT !["messages"] =
                            <<Message("assistant", response)>>]
    /\ BeginRun(NoEvent)
    /\ UNCHANGED <<faqs_json, loads, startup_faqs>>

\* lines 195-199 with the append placed inside the try block, so that it is
\* skipped when generate_response raises
AddBotResponse_InsideTry ==
    /\ pc = "respond"
    /\ session_state' = IF response[1].t = "Error generating response: "
                        THEN session_state
                        ELSE [session_state EXCEPT !["messages"] =
                                 Append(@, Message("assistant", response))]
    /\ BeginRun(NoEvent)
    /\ UNCHANGED <<faqs_json, loads, startup_faqs>>

\* lines 195-199: append the assistant's message and st.rerun()
AddBotResponse ==
    /\ pc = "respond"
    /\ session_state' = [session_state EXCEPT !["messages"] =
                            Append(@, Message("assistant", response))]
    /\ BeginRun(NoEvent)
    /\ UNCHANGED <<faqs_json, loads, startup_faqs>>

\* lines 201-222: draw the sidebar; Clear Conversation empties the history
\* and st.rerun()
Sidebar ==
    /\ pc = "sidebar"
    /\ IF event.kind = "clear"
       THEN /\ session_state' = [session_state EXCEPT !["messages"] = <<>>]
            /\ BeginRun(NoEvent)
       ELSE /\ pc' = "idle"
            /\ rendered' = TRUE
            /\ bot' = NoBot
            /\ UNCHANGED <<session_state, event, response, similarities, route, st_errors>>
    /\ UNCHANGED <<faqs_json, loads, startup_faqs>>

Next ==
    \/ Submit
    \/ ClickClear
    \/ Rerun
    \/ GenerateFaqs
    \/ InitializeChatbot
    \/ ChatHistory
    \/ UserInput
    \/ GenerateResponse
    \/ AddBotResponse
    \/ Sidebar

Spec == Init /\ [][Next]_vars

---------------------------------------------------------------------------
(* Properties *)

IsPrefix(s, t) == Len(s) <= Len(t) /\ SubSeq(t, 1, Len(s)) = s

\* the text the script shows for the outcome of a call
Shown(out) ==
    IF out.ok THEN out.val ELSE <<Line("Error generating response: ", out.val[1].s)>>

IsErrorReply(r) == r # <<>> /\ r[1].t = "Error generating response: "

\* the script has called generate_response for event.prompt and holds its result
Answered == pc = "respond"

\* the k-th smallest element of a set of numbers
Kth(S, k) == CHOOSE i \in S : Cardinality({j \in S : j < i}) = k - 1

\* C1: a query whose lowercased text contains "price", "cost" or "how much"
\* is answered by the Pricing Handler, whatever collection names it
\* contains and whatever the similarity scores are.
C1_PricingFirst ==
    (Answered /\ HasPricingKeyword(event.prompt)) =>
        /\ route = "pricing"
        /\ response = Shown(handle_pricing_query(bot.faqs, event.prompt))
        /\ response[1].t \in {"**{collection}**", "Our collections are priced at:",
                              "Error generating response: "}

\* C1 witness: a pricing query that also names a known collection has been
\* answered with a price block.
C1_Witness ==
    /\ Answered /\ HasPricingKeyword(event.prompt)
    /\ \E i \in 1..Len(bot.collections) :
         bot.collections[i] # <<>> /\ In(Lower(bot.collections[i]), Lower(event.prompt))
    /\ response[1].t = "**{collection}**"

\* C2: a query without pricing keyword that contains the name of a known
\* collection, case-insensitively, is answered by the Collection Handler
\* for one such collection: with the questions of the first records of that
\* collection in corpus order, at most 3 of them.
C2_CollectionQuestions ==
    (/\ Answered /\ ~HasPricingKeyword(event.prompt)
     /\ \E i \in 1..Len(bot.collections) :
          In(Lower(bot.collections[i]), Lower(event.prompt))) =>
        /\ route = "collection"
        /\ \E i \in 1..Len(bot.collections) :
             LET c == bot.collections[i]
                 members == {k \in 1..Len(bot.faqs) :
                                "collection" \in DOMAIN bot.faqs[k] /\ bot.faqs[k].collection = c}
                 n == IF Cardinality(members) < 3 THEN Cardinality(members) ELSE 3
             IN  /\ In(Lower(c), Lower(event.prompt))
                 /\ IF members = {}
                    THEN response = <<Line("Sorry, we couldn't find details about ", c)>>
                    ELSE /\ Len(response) = 2 + n
                         /\ response[1] = Line("U+2728 **{collection}** U+2728", c)
                         /\ \A k \in 1..n :
                              response[2 + k] = Line("- ", bot.faqs[Kth(members, k)].question)

\* C2 witness: a collection with more than 3 records was matched under a
\* different letter case and exactly 3 questions are listed.
C2_Witness ==
    /\ Answered /\ route = "collection" /\ Len(response) = 5
    /\ \E i \in 1..Len(bot.collections) :
         /\ response[1].s = bot.collections[i]
         /\ ~In(bot.collections[i], event.prompt)
         /\ Cardinality({k \in 1..Len(bot.faqs) :
               "collection" \in DOMAIN bot.faqs[k]
               /\ bot.faqs[k].collection = bot.collections[i]}) > 3

\* the largest similarity of the row
Best == similarities[CHOOSE i \in 1..Len(similarities) :
                        \A j \in 1..Len(similarities) : similarities[j] <= similarities[i]]

\* C3: on the generic path the top FAQ is shown only when its similarity
\* is strictly greater than 0.4; at exactly 0.4 or below the fallback
\* suggestions are returned.
C3_StrictThreshold ==
    (/\ Answered /\ ~HasPricingKeyword(event.prompt)
     /\ \A i \in 1..Len(bot.collections) :
          ~In(Lower(bot.collections[i]), Lower(event.prompt))) =>
        /\ Len(similarities) = Len(bot.faqs)
        /\ IF Best > 40
           THEN /\ route = "faq"
                /\ \E i \in 1..Len(bot.faqs) :
                     /\ similarities[i] = Best
                     /\ response = Shown(format_response(bot.faqs[i]))
           ELSE /\ route = "fallback"
                /\ response = get_fallback_response

\* C3 witness: a query whose best similarity is exactly 0.4 got the fallback.
C3_Witness ==
    /\ Answered /\ route = "fallback" /\ similarities # <<>> /\ Best = 40
    /\ response = get_fallback_response

\* C4: the response to a query is the same for every order in which the
\* set of distinct collection names can be iterated, and the FAQ shown on
\* the generic path is the first one with the top similarity.
C4_OrderIndependent ==
    Answered =>
        /\ \A order \in get_unique_collections(bot.faqs) :
             Shown(generate_response([bot EXCEPT !.collections = order],
                                     event.prompt, similarities).out) = response
        /\ route = "faq" =>
             \E i \in 1..Len(similarities) :
                /\ similarities[i] = Best
                /\ \A j \in 1..(i - 1) : similarities[j] < Best
                /\ response = Shown(format_response(bot.faqs[i]))

\* the records the Pricing Handler is to show: price_range present, not
\* empty, and contained in the query
Priced(faqs, query) ==
    SelectSeq(faqs, LAMBDA f : /\ "price_range" \in DOMAIN f
                               /\ f.price_range # <<>>
                               /\ In(Lower(f.price_range), Lower(query)))

\* C5: a response returned by the Pricing Handler holds one block
\* (collection, price range, answer) for exactly the records with a
\* non-empty price_range contained in the query, in corpus order; a record
\* with an absent or empty price_range contributes no block; with no block
\* the response is the three-tier table.
C5_PricingBlocks ==
    (Answered /\ route = "pricing" /\ ~IsErrorReply(response)) =>
        LET priced == Priced(bot.faqs, event.prompt) IN
        IF priced = <<>>
        THEN response = get_fallback_pricing
        ELSE /\ Len(response) = 4 * Len(priced)
             /\ \A k \in 1..Len(priced) :
                  /\ response[4 * k - 3] =
                        Line("**{collection}**", Get(priced[k], "collection", <<"Collection">>))
                  /\ response[4 * k - 2] = Line("Price Range: ", priced[k].price_range)
                  /\ response[4 * k - 1] = Line("Inclusions: ", priced[k].answer)

\* C6: a missing or malformed file loads as an empty corpus, construction
\* over an empty corpus fails, the script reports both errors and stops
\* before the chat input; no script run gets past construction with an
\* empty corpus.
C6_EmptyCorpusStops ==
    /\ faqs_json.status # "ok" => load_faqs(faqs_json).faqs = <<>>
    /\ pc \in {"history", "input", "generate", "respond", "sidebar"} =>
          bot.built /\ bot.faqs # <<>>
    /\ (pc = "idle" /\ load_faqs(faqs_json).faqs = <<>>) =>
          /\ ~rendered
          /\ Messages = <<>>
          /\ st_errors # <<>>
          /\ st_errors[Len(st_errors)].t = "Failed to initialize chatbot: "

\* C6 witness: the script has run on a missing file and stopped with the
\* load error and the initialization error on screen.
C6_Witness ==
    /\ pc = "idle" /\ loads = 1 /\ faqs_json = MissingFile /\ ~rendered
    /\ Len(st_errors) = 2 /\ st_errors[1].t = "Error loading FAQ file: "

\* C7: an exception raised by generate_response becomes the text of the
\* assistant's reply; the failed query leaves the corpus, the collections
\* and the file unchanged, and the script goes on to append the reply and
\* rerun, after which the chat input is drawn again.
C7_ErrorBecomesReply ==
    /\ [][ /\ pc = "generate" =>
                LET r == generate_response(bot, event.prompt, similarities') IN
                ~r.out.ok =>
                    /\ response' = <<Line("Error generating response: ", r.out.val[1].s)>>
                    /\ pc' = "respond"
                    /\ UNCHANGED <<bot, faqs_json, session_state>>
           /\ (pc = "respond" /\ IsErrorReply(response)) =>
                /\ Messages' = Append(Messages, Message("assistant", response))
                /\ pc' = "init"
                /\ faqs_json' = faqs_json ]_vars
    /\ [](pc = "idle" /\ Messages # <<>> => rendered \/ st_errors # <<>>)

\* C7 witness: after an error reply the session answered a further query.
C7_Witness ==
    /\ pc = "idle" /\ rendered /\ Len(Messages) = 4
    /\ IsErrorReply(Messages[2].content)
    /\ ~IsErrorReply(Messages[4].content)

\* C8: once the corpus and the vector model have been built, no later step
\* reads the file or builds them again, and every script run works on the
\* corpus built at startup.
C8_BuiltOnce ==
    /\ [][startup_faqs.built => loads' = loads]_vars
    /\ [](bot.built => bot.faqs = startup_faqs.faqs)

\* C9 as claimed: every earlier history is a prefix of every later one.
C9_AppendOnly == [][IsPrefix(Messages, Messages')]_vars

\* C9 amended: a step either extends the history or is the Clear
\* Conversation handler emptying it.
C9_AppendOrClear ==
    [][ \/ IsPrefix(Messages, Messages')
        \/ pc = "sidebar" /\ event.kind = "clear" /\ Messages' = <<>> ]_vars

\* C9 witness: the Clear Conversation run is about to empty a history that
\* holds an exchange.
C9_Witness == pc = "sidebar" /\ event.kind = "clear" /\ Len(Messages) >= 2

\* C10: between script runs the history has even length and alternates
\* user, assistant; while a prompt is being answered the history ends with
\* that prompt, still unanswered.
C10_Alternating ==
    /\ pc \in {"idle", "init"} =>
          /\ Len(Messages) % 2 = 0
          /\ \A i \in 1..Len(Messages) :
                Messages[i].role = IF i % 2 = 1 THEN "user" ELSE "assistant"
    /\ pc \in {"generate", "respond"} =>
          /\ Len(Messages) % 2 = 1
          /\ Messages[Len(Messages)] = Message("user", <<Line("", event.prompt)>>)

\* C10 witness: two exchanges, the first answered with an error message.
C10_Witness ==
    /\ pc = "idle" /\ Len(Messages) = 4
    /\ Messages[1].role = "user" /\ Messages[3].role = "user"
    /\ IsErrorReply(Messages[2].content)
=============================================================================
